---- MODULE Spec2Model ----
(***************************************************************************)
(* A model of py4web's client side utilities (utils.js):                   *)
(*   - Q.throttle and Q.debounce, with a discrete clock for their timers;  *)
(*   - the <ajax-component> machinery: Q.handle_components,                *)
(*     Q.load_and_trap, Q.trap_form, Q._ajaxSubmitForm, Q.is_form_changed  *)
(*     and the delegated click handler of the global submit buttons.       *)
(* JavaScript runs one task to completion, with the promise reactions it   *)
(* queues; an action below is one such task.                               *)
(***************************************************************************)
EXTENDS Naturals, Sequences, FiniteSets, Bags

\* An optional value is a sequence: <<>> is null, <<x>> is the value x.
Null == <<>>

Some(x) == <<x>>

Min(a, b) == IF a <= b THEN a ELSE b

-----------------------------------------------------------------------------
\* Bounds of the timer models.

\* `delay` handed to Q.throttle, in clock ticks.
Delay == 3

\* `wait` handed to Q.debounce, in clock ticks.
Wait == 3

\* The argument lists handed to the wrapped functions are 1..MaxArg.
MaxArg == 3

Args == 1 .. MaxArg

VARIABLES
    \* Q.throttle's closure
    throttleTimeout,  \* Null, or <<n>>: the timer fires in n ticks
    storedEvent,      \* Null, or <<e>>: the stored arguments
    \* what an observer of the throttled function has seen
    tOp,              \* the last step: "init", "call", "timer", "tick"
    tOut,             \* <<e>> when the last step invoked callback(e), else Null
    tLatest,          \* the arguments of the most recent call, or Null
    tLatestDone,      \* callback has been invoked for the most recent call
    tWindow,          \* an invocation's delay timer has not fired yet
    tAge,             \* ticks since the most recent call (capped at Delay + 1)
    tSince,           \* ticks since the last callback invocation (capped at Delay)
    tMade,            \* the arguments of the calls made so far
    tInWindow,        \* the calls made in the open window, oldest first (capped)
    \* Q.debounce's closure
    timeout,          \* Null, or <<n>>: `later` runs in n ticks
    laterArgs,        \* the args closed over by the pending `later`
    \* what an observer of the debounced function has seen
    dOp,              \* the last step: "init", "call", "later", "tick"
    dOut,             \* <<a>> when the last step invoked func(a), else Null
    dLatest,          \* the arguments of the most recent call, or Null
    dFirst,           \* the arguments of the first call after func last ran
    dSinceFirst,      \* ticks since that first call (capped at 2 * Wait)
    dSinceLast,       \* ticks since the most recent call (capped at 2 * Wait)
    dRuns,            \* invocations of func since the most recent call (capped)
    dBurst,           \* calls made since func last ran (capped at 2)
    \* the page: its <ajax-component> elements and global submit buttons
    gsAttr,           \* the global-submit attribute of each component, "" if none
    btnAttr,          \* whether a button has data-component-global-submit
    form,             \* the form inside each component: Null or <<form>>
    sub,              \* whether a component holds the element <div id="d">
    btnDisabled,      \* the disabled property of each global submit button
    inflight,         \* the bag of HTTP requests that have not completed
    globalDelegateActive,  \* Q._globalDelegateActive
    listeners,        \* click listeners installed on document.body (capped at 2)
    location,         \* "page", or "redirected" once window.location.href is set
    served,           \* the bodies (indices of Bodies) the server answers with
    last,             \* what the last task did
    outcome,          \* how the promise of Q.load_and_trap settled in the last
                      \* task: "resolved" or "rejected", "" when none settled
    \* Q.tags_input's closure and the elements it made
    tags,             \* options.tags, a sequence
    keys,             \* the selected keys, a sequence
    selected,         \* item.dataset.selected of the <li> of each position of tags
    freetext,         \* options.freetext
    inp,              \* whether the free text <input> exists
    value,            \* elem.value: the sequence it encodes
    configured,       \* the tags the caller configured
    initial,          \* the keys parsed from elem.value by Q.tags_input
    iOp               \* the last step: "init", "click", "change"

tvars == << throttleTimeout, storedEvent, tOp, tOut, tLatest, tLatestDone,
           tWindow, tAge, tSince, tMade, tInWindow >>

dvars == << timeout, laterArgs, dOp, dOut, dLatest, dFirst, dSinceFirst,
            dSinceLast, dRuns, dBurst >>

cvars == << gsAttr, btnAttr, form, sub, btnDisabled, inflight,
           globalDelegateActive, listeners, location, served, last, outcome >>

ivars == << tags, keys, selected, freetext, inp, value, configured, initial, iOp >>

vars == << tvars, dvars, cvars, ivars >>

-----------------------------------------------------------------------------
\* Q.throttle

TInit ==
    /\ throttleTimeout = Null
    /\ storedEvent = Null
    /\ tOp = "init"
    /\ tOut = Null
    /\ tLatest = Null
    /\ tLatestDone = TRUE
    /\ tWindow = FALSE
    /\ tAge = 0
    /\ tSince = Null
    /\ tMade = {}
    /\ tInWindow = << >>

\* A faulty variant: a call made in an open window does not replace the stored one.
throttledKeepsFirst(event, pending) ==
    IF pending = Null
    THEN /\ tOut' = Some(event)
         /\ storedEvent' = Null
         /\ throttleTimeout' = Some(Delay)
    ELSE /\ storedEvent' = (IF storedEvent = Null THEN Some(event) ELSE storedEvent)
         /\ tOut' = Null
         /\ throttleTimeout' = pending

\* A faulty variant: every call is stored and waits for a timer.
throttledNeverImmediate(event, pending) ==
    /\ storedEvent' = Some(event)
    /\ tOut' = Null
    /\ throttleTimeout' = (IF pending = Null THEN Some(Delay) ELSE pending)

\* A faulty variant: the open window is not consulted.
throttledAlwaysHandles(event, pending) ==
    /\ tOut' = Some(event)
    /\ storedEvent' = Null
    /\ throttleTimeout' = Some(Delay)

\* throttledEventHandler(...event), entered with throttleTimeout = pending.
throttledEventHandler(event, pending) ==
    IF pending = Null
    THEN \* callback(...storedEvent); storedEvent = null; setTimeout(.., delay)
         /\ tOut' = Some(event)
         /\ storedEvent' = Null
         /\ throttleTimeout' = Some(Delay)
    ELSE /\ storedEvent' = Some(event)
         /\ tOut' = Null
         /\ throttleTimeout' = pending

\* Somebody calls the throttled function.
TCall(event) ==
    /\ throttledEventHandler(event, throttleTimeout)
    /\ tOp' = "call"
    /\ tLatest' = Some(event)
    /\ tLatestDone' = (tOut' = Some(event))
    /\ tWindow' = (tWindow \/ tOut' # Null)
    /\ tAge' = 0
    /\ tSince' = (IF tOut' # Null THEN Some(0) ELSE tSince)
    /\ tMade' = tMade \cup {event}
    /\ tInWindow' = (IF throttleTimeout = Null THEN << >>
                     ELSE IF Len(tInWindow) < 2 THEN Append(tInWindow, event)
                     ELSE << tInWindow[1], event >>)

\* The callback handed to setTimeout runs.
TTimer ==
    /\ throttleTimeout = Some(0)
    /\ IF storedEvent # Null
       THEN throttledEventHandler(storedEvent[1], Null)
       ELSE /\ throttleTimeout' = Null
            /\ tOut' = Null
            /\ storedEvent' = storedEvent
    /\ tOp' = "timer"
    /\ tSince' = (IF tOut' # Null THEN Some(0) ELSE tSince)
    /\ tInWindow' = << >>
    /\ tLatestDone' = (tLatestDone \/ tOut' # Null)
    /\ tWindow' = (tOut' # Null)
    /\ UNCHANGED << tLatest, tAge, tMade >>

\* One tick of the clock; a timer that is due runs before the clock moves on.
TTick ==
    /\ throttleTimeout # Some(0)
    /\ throttleTimeout' =
           (IF throttleTimeout = Null THEN Null ELSE Some(throttleTimeout[1] - 1))
    /\ tOp' = "tick"
    /\ tOut' = Null
    /\ tAge' = Min(tAge + 1, Delay + 1)
    /\ tSince' = (IF tSince = Null THEN Null ELSE Some(Min(tSince[1] + 1, Delay)))
    /\ UNCHANGED << storedEvent, tLatest, tLatestDone, tWindow, tMade, tInWindow >>

-----------------------------------------------------------------------------
\* Q.debounce

DInit ==
    /\ timeout = Null
    /\ laterArgs = Null
    /\ dOp = "init"
    /\ dOut = Null
    /\ dLatest = Null
    /\ dFirst = Null
    /\ dSinceFirst = 0
    /\ dSinceLast = 0
    /\ dRuns = 0
    /\ dBurst = 0

\* A faulty variant: a pending timer is left alone, so the first call of a burst wins.
executedKeepsTimer(args) ==
    /\ timeout' = (IF timeout = Null THEN Some(Wait) ELSE timeout)
    /\ laterArgs' = (IF timeout = Null THEN Some(args) ELSE laterArgs)

\* executedFunction(...args): clearTimeout(timeout); timeout = setTimeout(later, wait)
executedFunction(args) ==
    /\ timeout' = Some(Wait)
    /\ laterArgs' = Some(args)

\* Somebody calls the debounced function.
DCall(args) ==
    /\ executedFunction(args)
    /\ dOp' = "call"
    /\ dOut' = Null
    /\ dLatest' = Some(args)
    /\ dFirst' = (IF dLatest = Null \/ dRuns >= 1 THEN Some(args) ELSE dFirst)
    /\ dSinceFirst' = (IF dLatest = Null \/ dRuns >= 1 THEN 0 ELSE dSinceFirst)
    /\ dBurst' = (IF dLatest = Null \/ dRuns >= 1 THEN 1 ELSE Min(dBurst + 1, 2))
    /\ dSinceLast' = 0
    /\ dRuns' = 0

\* later(): clearTimeout(timeout); func(...args)
later ==
    /\ timeout = Some(0)
    /\ timeout' = Null
    /\ dOut' = laterArgs
    /\ laterArgs' = Null

\* The pending `later` runs.
DLater ==
    /\ later
    /\ dOp' = "later"
    /\ dRuns' = Min(dRuns + 1, 2)
    /\ UNCHANGED << dLatest, dFirst, dSinceFirst, dSinceLast, dBurst >>

\* One tick of the clock; a timer that is due runs before the clock moves on.
DTick ==
    /\ timeout # Some(0)
    /\ timeout' = (IF timeout = Null THEN Null ELSE Some(timeout[1] - 1))
    /\ dOp' = "tick"
    /\ dOut' = Null
    /\ dSinceFirst' = Min(dSinceFirst + 1, 2 * Wait)
    /\ dSinceLast' = Min(dSinceLast + 1, 2 * Wait)
    /\ UNCHANGED << laterArgs, dLatest, dFirst, dRuns, dBurst >>

-----------------------------------------------------------------------------
\* The page of the <ajax-component> model.

\* The <ajax-component> elements, by id, in document order.
CompOrder == << "c1", "c2" >>

Comps == {CompOrder[i] : i \in 1 .. Len(CompOrder)}

\* The ids of the <button> elements of the page.
Btns == {"A", "B"}

\* The id of an element that a response body may bring: <div id="d">.
SubId == "d"

\* Requests that may be in flight together.
MaxInflight == 2

\* The HTML a component url may answer with (and a page may hold inside an
\* <ajax-component> to begin with): no form, or one form with one input and
\* one submit button.  noTrap: class no-form-trap; target: the form's
\* data-component_target; sub: the form lies inside <div id="d">.
NoForm ==
    [hasForm |-> FALSE, noTrap |-> FALSE, kind |-> "text", idis |-> FALSE,
     target |-> "", sub |-> FALSE]

TextForm == [NoForm EXCEPT !.hasForm = TRUE]

Bodies ==
    << NoForm,
       TextForm,
       [TextForm EXCEPT !.kind = "select"],
       [TextForm EXCEPT !.kind = "checkbox"],
       [TextForm EXCEPT !.noTrap = TRUE],
       [TextForm EXCEPT !.target = "c2"],
       [TextForm EXCEPT !.target = "nowhere"],
       [TextForm EXCEPT !.target = SubId, !.sub = TRUE],
       [TextForm EXCEPT !.kind = "select", !.idis = TRUE] >>

BodyIds == 1 .. Len(Bodies)

\* The bodies a page may hold inside its first component before the load of
\* the component completes; the other components hold no form then.
InitialBodyIds == {1, 2}

\* A server whose forms differ in their inputs.
InputBodyIds == {1, 2, 3, 4, 5, 9}

\* A server whose forms differ in where their responses go.
TargetBodyIds == {1, 2, 5, 6, 7, 8}

\* The bodies that the server also sends with a component-flash header.
FlashBodyIds == {1, 2}

\* A page whose components all name the global submit button A.
AllGlobal == [c \in Comps |-> "A"]

\* A page whose first component names the global submit button A, the forms
\* of the others having their own submit buttons.
FirstGlobal == [c \in Comps |-> IF c = CompOrder[1] THEN "A" ELSE ""]

\* A page whose components name the global submit buttons A and B in turn.
TwoButtons == [c \in Comps |-> IF c = CompOrder[1] THEN "A" ELSE "B"]

\* The buttons carry data-component-global-submit: all of them, or all but B.
ButtonAttrs == {[b \in Btns |-> TRUE], [b \in Btns |-> b # "B"]}

\* A server whose responses hold no form or a form with a text input.
PlainBodyIds == {1, 2}

\* What a request ends with: a network failure, a redirected response, or a
\* response with a body and perhaps a component-flash header.
Responses ==
    { [kind |-> "fail", body |-> 1, flash |-> FALSE],
      [kind |-> "redirect", body |-> 1, flash |-> FALSE] }
    \cup { [kind |-> "ok", body |-> b, flash |-> FALSE] : b \in served }
    \cup { [kind |-> "ok", body |-> b, flash |-> TRUE] : b \in served \cap FlashBodyIds }

\* The form element that the HTML `body` parses to.
Render(body) ==
    IF ~body.hasForm THEN Null
    ELSE Some([ noTrap |-> body.noTrap,   \* class no-form-trap
                kind |-> body.kind,       \* of its input: text, checkbox, select
                idis |-> body.idis,       \* input.disabled
                edited |-> FALSE,         \* the user changed the input
                target |-> body.target,   \* dataset.component_target
                gsub |-> "",              \* data-global-submit
                bdis |-> FALSE,           \* its submit button's disabled
                bhid |-> FALSE,           \* its submit button's style.display = "none"
                bclick |-> FALSE ])       \* its submit button's onclick is set

\* The DOM properties Q.is_form_changed reads.  An HTMLSelectElement has no
\* defaultValue property: reading it gives undefined.
InputValue(f) ==
    IF f.kind = "checkbox" THEN "on" ELSE IF f.edited THEN "new" ELSE "old"

InputDefaultValue(f) ==
    IF f.kind = "select" THEN "undefined"
    ELSE IF f.kind = "checkbox" THEN "on" ELSE "old"

InputChecked(f) == f.kind = "checkbox" /\ f.edited

InputDefaultChecked(f) == FALSE

\* Q.is_form_changed(form)
is_form_changed(f) ==
    IF f.idis THEN FALSE
    ELSE IF f.kind \in {"checkbox", "radio"}
         THEN InputChecked(f) # InputDefaultChecked(f)
         ELSE InputValue(f) # InputDefaultValue(f)

-----------------------------------------------------------------------------
\* The document a task works on, threaded through the functions it calls:
\* gone collects the components whose form element the task has replaced,
\* flash the messages it handed to Q.flash, rejected whether the promise that
\* Q.load_and_trap returned was rejected.
Dom ==
    [form |-> form, sub |-> sub, active |-> globalDelegateActive,
     listeners |-> listeners, loc |-> location, flash |-> {}, gone |-> {},
     trapped |-> {}, rejected |-> FALSE]

Flash(D, msg) == [D EXCEPT !.flash = @ \cup {msg}]

\* Q("#" + id)[0]: the component with that id, or the component that holds
\* the first <div id="d"> of the document; Null when there is no such element.
Lookup(D, id) ==
    IF id \in Comps THEN Some(id)
    ELSE IF id = SubId /\ \E c \in Comps : D.sub[c]
         THEN Some(CompOrder[CHOOSE i \in 1 .. Len(CompOrder) :
                       /\ D.sub[CompOrder[i]]
                       /\ \A j \in 1 .. (i - 1) : ~D.sub[CompOrder[j]]])
         ELSE Null

\* Whether the form of component c matches `#${id} form`.
Within(D, c, id) == id = c \/ (id = SubId /\ D.sub[c])

\* elem.getAttribute("global-submit"), "" standing for null
GlobalSubmitAttr(id) == IF id \in Comps THEN gsAttr[id] ELSE ""

\* A faulty variant: the listener is added whether or not the flag is set.
delegateSetupUnguarded(D) ==
    [D EXCEPT !.active = TRUE, !.listeners = Min(@ + 1, 2)]

\* Q._maybeSetupGlobalDelegate()
maybeSetupGlobalDelegate(D) ==
    IF D.active THEN D
    ELSE [D EXCEPT !.active = TRUE, !.listeners = Min(@ + 1, 2)]

\* The body of Q.trap_form's forms.forEach, for one form.
trapOne(f, elem_id, globalSubmitId) ==
    LET target == IF f.target # "" THEN f.target ELSE elem_id
    IN  IF globalSubmitId # ""
        THEN [f EXCEPT !.target = target, !.gsub = globalSubmitId, !.bhid = TRUE]
        ELSE [f EXCEPT !.target = target, !.bhid = FALSE, !.bclick = TRUE]

\* The selector of Q.trap_form: form:not(.no-form-trap)
trapsMarked(f) == ~f.noTrap

\* Q.trap_form(action, elem_id, globalSubmitId)
trap_form(D, elem_id, globalSubmitId) ==
    LET hit == {c \in Comps : /\ D.form[c] # Null
                              /\ trapsMarked(D.form[c][1])
                              /\ Within(D, c, elem_id)}
        D1 == [D EXCEPT
                 !.form = [c \in Comps |->
                              IF c \in hit
                              THEN Some(trapOne(D.form[c][1], elem_id, globalSubmitId))
                              ELSE D.form[c]],
                 !.trapped = @ \cup hit]
    IN  IF globalSubmitId # "" THEN maybeSetupGlobalDelegate(D1) ELSE D1

\* elem.innerHTML = res.data, elem being the element with id `id` inside (or
\* being) the component c.
Install(D, c, id, body) ==
    [D EXCEPT !.form[c] = Render(body),
              !.sub[c] = (IF id = c THEN body.sub ELSE TRUE),
              !.gone = (IF D.form[c] # Null THEN @ \cup {c} ELSE @)]

\* A faulty variant: a redirected response is installed like any other.
thenIgnoresRedirect(D, target, res) ==
    IF res.kind = "fail" THEN Flash(D, "Ajax component error")
    ELSE LET elem == Lookup(D, target)
         IN  IF elem = Null THEN Flash(D, "Target element not found")
             ELSE LET D1 == Install(D, elem[1], target, Bodies[res.body])
                      D2 == trap_form(D1, target, GlobalSubmitAttr(target))
                  IN  IF res.flash THEN Flash(D2, "component-flash") ELSE D2

\* A faulty variant: the response is installed in the first component.
thenInstallsInFirst(D, target, res) ==
    IF res.kind = "fail" THEN Flash(D, "Ajax component error")
    ELSE IF res.kind = "redirect" THEN [D EXCEPT !.loc = "redirected"]
    ELSE LET D1 == Install(D, CompOrder[1], CompOrder[1], Bodies[res.body])
             D2 == trap_form(D1, CompOrder[1], GlobalSubmitAttr(CompOrder[1]))
         IN  IF res.flash THEN Flash(D2, "component-flash") ELSE D2

\* Q("#" + target) throws: "#", the selector of an empty target, is not a
\* selector, and document.querySelectorAll answers it with a SyntaxError.
selectorThrows(target) == target = ""

\* A faulty variant: Q.load_and_trap without its .catch.
thenWithoutCatch(D, target, res) ==
    IF res.kind = "fail" THEN [D EXCEPT !.rejected = TRUE]
    ELSE IF res.kind = "redirect" THEN [D EXCEPT !.loc = "redirected"]
    ELSE IF selectorThrows(target) THEN [D EXCEPT !.rejected = TRUE]
    ELSE LET elem == Lookup(D, target)
         IN  IF elem = Null THEN Flash(D, "Target element not found")
             ELSE LET D1 == Install(D, elem[1], target, Bodies[res.body])
                      D2 == trap_form(D1, target, GlobalSubmitAttr(target))
                  IN  IF res.flash THEN Flash(D2, "component-flash") ELSE D2

\* The reactions of Q.load_and_trap to the outcome res of Q.ajax: its .then
\* callback, and its .catch when the request failed or the callback threw.
\* The .catch flashes and returns, so the promise is resolved in every case.
loadAndTrapThen(D, target, res) ==
    IF res.kind = "fail" THEN Flash(D, "Ajax component error")
    ELSE IF res.kind = "redirect" THEN [D EXCEPT !.loc = "redirected"]
    ELSE IF selectorThrows(target) THEN Flash(D, "Ajax component error")
    ELSE LET elem == Lookup(D, target)
         IN  IF elem = Null THEN Flash(D, "Target element not found")
             ELSE LET D1 == Install(D, elem[1], target, Bodies[res.body])
                      D2 == trap_form(D1, target, GlobalSubmitAttr(target))
                  IN  IF res.flash THEN Flash(D2, "component-flash") ELSE D2

\* A request of Q.load_and_trap(method, url, form_data, target).  from: the
\* component whose form element was submitted ("" for a load, and once that
\* element has left the document); gbtn: the global submit button whose
\* Promise.all waits for the request ("" if none does).
Request(method, target, from, gbtn) ==
    [method |-> method, target |-> target, from |-> from, gbtn |-> gbtn]

\* The flash of Q.load_and_trap for a target that is not given.
TargetFlash(target) == IF target = "" THEN {"Target element not specified"} ELSE {}

\* What a task is remembered by: op is "init", "deliver", "gclick", "lclick",
\* "edit", "oclick", "trigger" or "call"; id the button, component, element
\* or request target it was about; res
\* and body the outcome of the request and the body of its response (an index
\* of Bodies, 0 without one); sent the components whose forms it posted;
\* trapped the components whose forms it trapped; flash the messages it
\* flashed.
Step(op, id, method, res, body, sent, trapped, flash) ==
    [op |-> op, id |-> id, method |-> method, res |-> res, body |-> body,
     sent |-> sent, trapped |-> trapped, flash |-> flash]

\* The page when init() has run: Q.handle_components has started one GET per
\* <ajax-component>, nothing is trapped yet.
CPage(bodyIds, initialIds, pages, attrs) ==
    /\ served = bodyIds
    /\ gsAttr \in pages
    /\ btnAttr \in attrs
    /\ \E i \in initialIds :
           form = [c \in Comps |-> IF c = CompOrder[1] THEN Render(Bodies[i]) ELSE Null]
    /\ sub = [c \in Comps |-> FALSE]
    /\ btnDisabled = [b \in Btns |-> FALSE]
    /\ inflight = SetToBag({Request("GET", c, "", "") : c \in Comps})
    /\ globalDelegateActive = FALSE
    /\ listeners = 0
    /\ location = "page"
    /\ last = Step("init", "", "", "", 0, {}, {}, {})
    /\ outcome = ""

\* The same, on a page whose buttons all carry data-component-global-submit.
CInit(bodyIds, initialIds, pages) ==
    CPage(bodyIds, initialIds, pages, {[b \in Btns |-> TRUE]})

\* A page without components, for the specifications of the timers.
CIdle ==
    /\ served = {}
    /\ gsAttr = [c \in Comps |-> ""]
    /\ btnAttr = [b \in Btns |-> FALSE]
    /\ form = [c \in Comps |-> Null]
    /\ sub = [c \in Comps |-> FALSE]
    /\ btnDisabled = [b \in Btns |-> FALSE]
    /\ inflight = EmptyBag
    /\ globalDelegateActive = FALSE
    /\ listeners = 0
    /\ location = "page"
    /\ last = Step("init", "", "", "", 0, {}, {}, {})
    /\ outcome = ""

Count(B, q) == IF q \in DOMAIN B THEN B[q] ELSE 0

\* The requests B, those of the form elements of the components `gone` now
\* being requests of elements outside the document.
Detach(B, gone) ==
    LET moved(q) == IF q.from \in gone THEN [q EXCEPT !.from = ""] ELSE q
        S == {moved(q) : q \in DOMAIN B}
    IN  [x \in S |->
            IF x.from # "" THEN B[x]
            ELSE Count(B, x) +
                 (IF gone = {} THEN 0
                  ELSE Count(B, [x EXCEPT !.from = CHOOSE g \in gone : TRUE]))]

\* A faulty variant: the load of a component is started again when it fails.
deliverRetries(r, res, rest) ==
    IF res.kind = "fail" THEN rest (+) SetToBag({r}) ELSE rest

\* The requests in flight when request r has completed with res: Q.ajax and
\* Q.load_and_trap start no other.
deliverLeaves(r, res, rest) == rest

\* A request completes with res, and the promise reactions run: those of
\* Q.load_and_trap; for the load of a component, the .then of
\* Q.handle_components when the promise is resolved; for a submission, the
\* .catch of Q._ajaxSubmitForm when it is rejected, the .finally of
\* Q._ajaxSubmitForm and of the local click handler; and the .finally of a
\* global click's Promise.all when this was the last of its requests.
Deliver(r, res) ==
    /\ location = "page"
    /\ BagIn(r, inflight)
    /\ LET D1 == loadAndTrapThen(Dom, r.target, res)
           D2 == IF r.method = "GET"
                 THEN IF r.target \in Comps /\ ~D1.rejected
                      THEN trap_form(D1, r.target, gsAttr[r.target])
                      ELSE D1
                 ELSE IF D1.rejected THEN Flash(D1, "Submission error") ELSE D1
           alive == r.from # "" /\ r.from \notin D2.gone
           rest == Detach(deliverLeaves(r, res, inflight (-) SetToBag({r})), D2.gone)
           settled == r.gbtn # "" /\ \A q \in DOMAIN rest : q.gbtn # r.gbtn
       IN  /\ form' = (IF alive
                       THEN [D2.form EXCEPT ![r.from] = Some([@[1] EXCEPT !.bdis = FALSE])]
                       ELSE D2.form)
           /\ sub' = D2.sub
           /\ globalDelegateActive' = D2.active
           /\ listeners' = D2.listeners
           /\ location' = D2.loc
           /\ inflight' = rest
           /\ btnDisabled' = (IF settled THEN [btnDisabled EXCEPT ![r.gbtn] = FALSE]
                              ELSE btnDisabled)
           /\ last' = Step("deliver", r.target, r.method, res.kind,
                           IF res.kind = "ok" THEN res.body ELSE 0, {}, D2.trapped,
                           D2.flash)
           /\ outcome' = (IF D1.rejected THEN "rejected" ELSE "resolved")
    /\ UNCHANGED << served, gsAttr, btnAttr >>

\* A faulty variant: the delegate submits the forms of every global submit button.
globalFormsOfAnyButton(b) ==
    {c \in Comps : form[c] # Null /\ form[c][1].gsub # "" /\ ~form[c][1].noTrap}

\* document.querySelectorAll(`form[data-global-submit="${b}"]:not(.no-form-trap)`)
globalForms(b) ==
    {c \in Comps : form[c] # Null /\ form[c][1].gsub = b /\ ~form[c][1].noTrap}

\* A faulty variant: the delegate stops at the first form.
submittedOnlyFirst(forms) ==
    IF forms = {} THEN {}
    ELSE LET first == CompOrder[CHOOSE i \in 1 .. Len(CompOrder) :
                           /\ CompOrder[i] \in forms
                           /\ \A j \in 1 .. (i - 1) : CompOrder[j] \notin forms]
         IN  {c \in {first} : is_form_changed(form[c][1])}

\* The forms among `forms` for which Q._ajaxSubmitForm starts a request: it
\* rejects at once for a form that Q.is_form_changed finds unchanged.
submitted(forms) == {c \in forms : is_form_changed(form[c][1])}

\* The form of component c when Q._ajaxSubmitForm has started its request.
Submitting(c) == Some([form[c][1] EXCEPT !.bdis = TRUE])

\* The elements of the page outside the components that a click may land
\* on: the buttons, and one element that is in no button.
Elsewhere == "elsewhere"

ClickTargets == Btns \cup {Elsewhere}

\* A faulty variant: the listener takes any button for a global submit button.
closestAnyButton(e) == IF e \in Btns THEN Some(e) ELSE Null

\* event.target.closest("button[data-component-global-submit]"), for a click
\* that landed on e.
closestGlobalButton(e) == IF e \in Btns /\ btnAttr[e] THEN Some(e) ELSE Null

\* A click event whose target is e is dispatched in the task `op`.  The
\* delegated listener of Q._maybeSetupGlobalDelegate, if it is installed and
\* e is an enabled button that carries data-component-global-submit, submits
\* the forms tagged with the button's id; when one of them is rejected as
\* unchanged, Promise.all rejects and its .finally enables the button again
\* within the task.
clickDispatched(e, op) ==
    LET btn == closestGlobalButton(e)
        handled == listeners > 0 /\ btn # Null /\ ~btnDisabled[btn[1]]
        forms == IF handled THEN globalForms(btn[1]) ELSE {}
        posts == submitted(forms)
        waits == posts = forms
    IN  /\ BagCardinality(inflight) + Cardinality(posts) <= MaxInflight
        /\ form' = [c \in Comps |-> IF c \in posts THEN Submitting(c) ELSE form[c]]
        /\ inflight' = inflight (+)
               SetToBag({Request("POST", form[c][1].target, c,
                                 IF waits THEN btn[1] ELSE "") : c \in posts})
        /\ btnDisabled' = (IF forms = {} THEN btnDisabled
                           ELSE [btnDisabled EXCEPT ![btn[1]] = waits])
        /\ last' = Step(op, e, "", "", 0, posts, {},
                        UNION {TargetFlash(form[c][1].target) : c \in posts})
        /\ outcome' = ""
        /\ UNCHANGED << served, gsAttr, btnAttr, sub, globalDelegateActive,
                        listeners, location >>

\* The user clicks on the button b: a disabled button gets no click event.
GlobalClick(b) ==
    /\ location = "page"
    /\ ~btnDisabled[b]
    /\ clickDispatched(b, "gclick")

\* The user clicks on an element that is in no button.
OtherClick ==
    /\ location = "page"
    /\ clickDispatched(Elsewhere, "oclick")

\* The ids a script may hand to Q.triggerGlobalSubmit: those of the buttons,
\* and one that no element has.
TriggerIds == Btns \cup {"missing"}

\* A step that changes nothing on the page.
nothingDone(op, id) ==
    /\ last' = Step(op, id, "", "", 0, {}, {}, {})
    /\ outcome' = ""
    /\ UNCHANGED << served, gsAttr, btnAttr, form, sub, btnDisabled, inflight,
                    globalDelegateActive, listeners, location >>

\* A faulty variant: Q.triggerGlobalSubmit never clicks.
triggerNeverClicks(id) ==
    /\ location = "page"
    /\ nothingDone("trigger", id)

\* Q.triggerGlobalSubmit(globalSubmitId): btn.click() dispatches a click event
\* whose target is the button.
triggerGlobalSubmit(id) ==
    /\ location = "page"
    /\ IF id \in Btns /\ ~btnDisabled[id]
       THEN clickDispatched(id, "trigger")
       ELSE nothingDone("trigger", id)

\* The targets a script of the page hands to Q.load_and_trap itself: none,
\* and the id of no element.
CallTargets == {"", "nowhere"}

\* A script of the page calls Q.load_and_trap("GET", url, null, target).
LoadCall(target) ==
    /\ location = "page"
    /\ BagCardinality(inflight) < MaxInflight
    /\ inflight' = inflight (+) SetToBag({Request("GET", target, "", "")})
    /\ last' = Step("call", target, "GET", "", 0, {}, {}, TargetFlash(target))
    /\ outcome' = ""
    /\ UNCHANGED << served, gsAttr, btnAttr, form, sub, btnDisabled,
                    globalDelegateActive, listeners, location >>

\* A click on the visible, enabled submit button of the form of component c,
\* whose onclick Q.trap_form has set.
LocalClick(c) ==
    /\ location = "page"
    /\ form[c] # Null
    /\ form[c][1].bclick /\ ~form[c][1].bhid /\ ~form[c][1].bdis
    /\ LET posts == submitted({c})
       IN  /\ BagCardinality(inflight) + Cardinality(posts) <= MaxInflight
           /\ form' = [form EXCEPT ![c] = IF c \in posts THEN Submitting(c) ELSE @]
           /\ inflight' = inflight (+)
                  SetToBag({Request("POST", form[c][1].target, c, "") : x \in posts})
           /\ last' = Step("lclick", c, "", "", 0, posts, {},
                           UNION {TargetFlash(form[c][1].target) : x \in posts})
           /\ outcome' = ""
    /\ UNCHANGED << served, gsAttr, btnAttr, sub, btnDisabled, globalDelegateActive,
                    listeners, location >>

\* The user changes the enabled input of the trapped form of component c, or
\* changes it back to its default.
Edit(c) ==
    /\ location = "page"
    /\ form[c] # Null
    /\ ~form[c][1].idis
    /\ form[c][1].target # ""
    /\ form' = [form EXCEPT ![c] = Some([@[1] EXCEPT !.edited = ~@])]
    /\ last' = Step("edit", c, "", "", 0, {}, {}, {})
    /\ outcome' = ""
    /\ UNCHANGED << served, gsAttr, btnAttr, sub, btnDisabled, inflight,
                    globalDelegateActive, listeners, location >>

-----------------------------------------------------------------------------
\* Q.tags_input

\* x.trim()
trim(x) == CASE x = " b" -> "b" [] x = " c" -> "c" [] x = " " -> "" [] OTHER -> x

\* options.transform, by default x.toLowerCase()
transform(x) == CASE x = "B" -> "b" [] x = "D" -> "d" [] OTHER -> x

\* Q.parse_list(line), line being given by its comma separated fields: each
\* field is trimmed; the empty string has no field.
parse_list(line) == [i \in 1 .. Len(line) |-> trim(line[i])]

Range(q) == {q[i] : i \in 1 .. Len(q)}

\* xs.map(x => { if (x && q.indexOf(x) < 0) q.push(x) }), also for an empty x
\* when `blank` is set.
RECURSIVE pushNew(_, _, _)
pushNew(q, xs, blank) ==
    IF xs = << >> THEN q
    ELSE pushNew(IF (Head(xs) # "" \/ blank) /\ Head(xs) \notin Range(q)
                 THEN Append(q, Head(xs)) ELSE q,
                 Tail(xs), blank)

\* The option sets and the values of the <input> that Q.tags_input is called
\* with.  A value is a JSON array (json), or a comma separated list.
TagOptions ==
    { [tags |-> << >>, freetext |-> TRUE],
      [tags |-> << "a", "b" >>, freetext |-> TRUE],
      [tags |-> << "a", "b" >>, freetext |-> FALSE],
      [tags |-> << "a", "a" >>, freetext |-> FALSE] }

TagValues ==
    { [json |-> FALSE, items |-> << >>],
      [json |-> FALSE, items |-> << "a" >>],
      [json |-> FALSE, items |-> << "a", " c" >>],
      [json |-> TRUE, items |-> << "b", "b" >>] }

\* What the user may type into the free text input, by its comma separated
\* fields.
TypedLines == { << "d" >>, << " B" >>, << "a", "D" >>, << " " >> }

\* fill(elem, repl): one <li> per tag, selected when the tag is a key.
fill(t, k) == [i \in 1 .. Len(t) |-> t[i] \in Range(k)]

\* A faulty variant: the free text input is made whatever options.freetext is.
inputAlwaysMade(opt) == TRUE

\* if (options.freetext): whether Q.tags_input makes the free text input.
inputMade(opt) == opt.freetext

\* Q.tags_input(elem, options) has run.
IInit ==
    \E opt \in TagOptions, v \in TagValues :
        LET k == IF v.json THEN v.items ELSE parse_list(v.items)
            t == pushNew(opt.tags, k, TRUE)
        IN  /\ tags = t
            /\ keys = k
            /\ selected = fill(t, k)
            /\ freetext = opt.freetext
            /\ inp = inputMade(opt)
            /\ value = v.items
            /\ configured = Range(opt.tags)
            /\ initial = Range(k)
            /\ iOp = "init"

\* A page on which Q.tags_input is not called.
IIdle ==
    /\ tags = << >>
    /\ keys = << >>
    /\ selected = << >>
    /\ freetext = FALSE
    /\ inp = FALSE
    /\ value = << >>
    /\ configured = {}
    /\ initial = {}
    /\ iOp = "init"

\* item.onclick of the <li> at position i.
ItemClick(i) ==
    /\ i \in 1 .. Len(tags)
    /\ LET x == tags[i]
           k == IF ~selected[i] THEN Append(keys, x)
                ELSE SelectSeq(keys, LAMBDA y : y # x)
       IN  /\ keys' = k
           /\ selected' = [selected EXCEPT ![i] = x \in Range(k)]
           /\ value' = k
    /\ iOp' = "click"
    /\ UNCHANGED << tags, freetext, inp, configured, initial >>

\* inp.onchange, the user having typed `line` into the free text input.
InpChange(line) ==
    /\ inp
    /\ LET xs == [i \in 1 .. Len(line) |-> transform(trim(parse_list(line)[i]))]
           t == pushNew(tags, xs, FALSE)
           k == pushNew(keys, xs, FALSE)
       IN  /\ tags' = t
           /\ keys' = k
           /\ value' = k
           /\ selected' = fill(t, k)
    /\ iOp' = "change"
    /\ UNCHANGED << freetext, inp, configured, initial >>

-----------------------------------------------------------------------------
\* The specifications.

\* The timers alone.
Init == TInit /\ DInit /\ CIdle /\ IIdle

\* The page alone, its components empty at first, with a server whose forms
\* differ in their targets.
PageInit == TInit /\ DInit /\ IIdle /\ CInit(TargetBodyIds, {1}, {FirstGlobal})

\* The page alone, with a server whose forms differ in their inputs.
InputsInit ==
    /\ TInit /\ DInit /\ IIdle
    /\ CInit(InputBodyIds, InitialBodyIds, {AllGlobal, FirstGlobal})

\* The page with two global submit buttons and the scripts that call
\* Q.triggerGlobalSubmit and Q.load_and_trap.
ScriptsInit ==
    /\ TInit /\ DInit /\ IIdle
    /\ CPage(PlainBodyIds, {1}, {TwoButtons, FirstGlobal}, ButtonAttrs)

\* The tags widget alone.
TagsInit == TInit /\ DInit /\ CIdle /\ IInit

ThrottleNext ==
    \/ \E e \in Args : TCall(e) /\ UNCHANGED << dvars, cvars, ivars >>
    \/ TTimer /\ UNCHANGED << dvars, cvars, ivars >>
    \/ TTick /\ UNCHANGED << dvars, cvars, ivars >>

DebounceNext ==
    \/ \E a \in Args : DCall(a) /\ UNCHANGED << tvars, cvars, ivars >>
    \/ DLater /\ UNCHANGED << tvars, cvars, ivars >>
    \/ DTick /\ UNCHANGED << tvars, cvars, ivars >>

ComponentNext ==
    \/ \E r \in DOMAIN inflight, res \in Responses :
           Deliver(r, res) /\ UNCHANGED << tvars, dvars, ivars >>
    \/ \E b \in Btns : GlobalClick(b) /\ UNCHANGED << tvars, dvars, ivars >>
    \/ \E c \in Comps : LocalClick(c) /\ UNCHANGED << tvars, dvars, ivars >>
    \/ \E c \in Comps : Edit(c) /\ UNCHANGED << tvars, dvars, ivars >>

ScriptsNext ==
    \/ ComponentNext
    \/ OtherClick /\ UNCHANGED << tvars, dvars, ivars >>
    \/ \E id \in TriggerIds : triggerGlobalSubmit(id) /\ UNCHANGED << tvars, dvars, ivars >>
    \/ \E t \in CallTargets : LoadCall(t) /\ UNCHANGED << tvars, dvars, ivars >>

TagsNext ==
    \/ \E i \in 1 .. Len(tags) : ItemClick(i) /\ UNCHANGED << tvars, dvars, cvars >>
    \/ \E line \in TypedLines : InpChange(line) /\ UNCHANGED << tvars, dvars, cvars >>

\* The page with its components, the user and the server.
SpecComponents == PageInit /\ [][ComponentNext]_vars

\* The same page, with the other server.
SpecInputs == InputsInit /\ [][ComponentNext]_vars

\* The page with the scripts.
SpecScripts == ScriptsInit /\ [][ScriptsNext]_vars

\* The tags widget and its user.
SpecTags == TagsInit /\ [][TagsNext]_vars

\* The throttled function, its timer and the clock.
SpecThrottle == Init /\ [][ThrottleNext]_vars

\* The debounced function, its timer and the clock.
SpecDebounce == Init /\ [][DebounceNext]_vars

\* The same, with the event loop's guarantees: the clock advances and a timer
\* that is due runs.
FairSpecThrottle ==
    SpecThrottle /\ WF_vars(TTick /\ UNCHANGED << dvars, cvars, ivars >>)
                 /\ WF_vars(TTimer /\ UNCHANGED << dvars, cvars, ivars >>)

-----------------------------------------------------------------------------
\* The <ajax-component> claims.

\* The POST requests in the bag B that were started for the form of c.
Posts(B, c) ==
    BagCardinality([q \in {x \in DOMAIN B : x.method = "POST" /\ x.from = c} |-> B[q]])

\* The components whose form is tagged data-global-submit=b and is not
\* .no-form-trap, and those of them whose input the user has changed.
TaggedForms(b) ==
    {c \in Comps : form[c] # Null /\ form[c][1].gsub = b /\ ~form[c][1].noTrap}

ChangedForms(b) == {c \in TaggedForms(b) : form[c][1].edited}

\* C1: a click on an enabled global submit button b starts, in the task of
\* the click, one POST for every form tagged with b that is not .no-form-trap
\* and whose input was changed, in whichever component the form is.
C1_GlobalClickSubmitsAllChanged ==
    [][(last'.op = "gclick" /\ btnAttr[last'.id]) =>
           \A c \in ChangedForms(last'.id) :
               /\ c \in last'.sent
               /\ Posts(inflight', c) = Posts(inflight, c) + 1]_vars

\* C1's case: one click has posted the changed forms of both components.
C1_Witness ==
    /\ last.op = "gclick"
    /\ last.sent = Comps
    /\ ChangedForms(last.id) = Comps
    /\ \A c \in Comps : Posts(inflight, c) = 1

\* C2: a global click sends no request for a tagged form whose input is not
\* changed away from its default and leaves that form as it is, and submits
\* every changed form it targets.
C2_Original ==
    [][last'.op = "gclick" =>
           \A c \in TaggedForms(last'.id) :
               IF form[c][1].edited
               THEN c \in last'.sent
               ELSE /\ c \notin last'.sent
                    /\ Posts(inflight', c) = Posts(inflight, c)
                    /\ form'[c] = form[c]]_vars

\* The load that Q.handle_components started for component c has completed.
Loaded(c) == \A q \in DOMAIN inflight : ~(q.method = "GET" /\ q.target = c)

\* A form whose submission is done by Q._ajaxSubmitForm: it has its
\* component_target, and its submit button's onclick or a data-global-submit.
IsTrapped(f) == f.target # "" /\ (f.bclick \/ f.gsub # "")

\* The form elements fo and go are the same element, whatever its submit
\* button's disabled is.
SameElement(fo, go) ==
    IF fo = Null \/ go = Null THEN fo = go
    ELSE [fo[1] EXCEPT !.bdis = FALSE] = [go[1] EXCEPT !.bdis = FALSE]

\* The form element go is the element fo, perhaps trapped meanwhile.
SameInput(fo, go) ==
    IF fo = Null \/ go = Null THEN fo = go
    ELSE /\ fo[1].kind = go[1].kind /\ fo[1].noTrap = go[1].noTrap
         /\ fo[1].idis = go[1].idis /\ fo[1].edited = go[1].edited

\* The form element fo is what the HTML `body` parses to, untouched.
Shows(fo, body) ==
    IF body.hasForm
    THEN /\ fo # Null
         /\ fo[1].kind = body.kind /\ fo[1].noTrap = body.noTrap
         /\ fo[1].idis = body.idis
         /\ ~fo[1].edited /\ ~fo[1].bdis
    ELSE fo = Null

\* The last task completed a form submission with a response that was not
\* redirected.
PostCompleted == last.op = "deliver" /\ last.method = "POST" /\ last.res = "ok"

Redirected == last.op = "deliver" /\ last.res = "redirect"

\* C4 as stated: after a redirected response window.location is set, no
\* component's content is replaced, no form is trapped and nothing is flashed.
C4_Original ==
    [][Redirected' =>
           /\ location' = "redirected"
           /\ \A c \in Comps : SameElement(form[c], form'[c])
           /\ last'.trapped = {}
           /\ last'.flash = {}]_vars

\* C4, amended: after a redirected response window.location is set, no
\* component's content is replaced and nothing is flashed; after a redirected
\* submission no form is trapped; after a redirected load of a component,
\* Q.handle_components still traps the forms that component already holds,
\* and no other.
C4_RedirectLeavesContent ==
    [][Redirected' =>
           /\ location' = "redirected"
           /\ last'.flash = {}
           /\ \A c \in Comps : SameInput(form[c], form'[c]) /\ sub'[c] = sub[c]
           /\ last'.method = "POST" =>
                  /\ last'.trapped = {}
                  /\ \A c \in Comps : SameElement(form[c], form'[c])
           /\ last'.method = "GET" =>
                  /\ last'.trapped \subseteq {last'.id}
                  /\ \A c \in Comps \ {last'.id} : form'[c] = form[c]]_vars

\* C4's case: the response to the submission of a changed form was
\* redirected; the page leaves and the form is still there, changed.
C4_Witness ==
    /\ Redirected
    /\ last.method = "POST"
    /\ location = "redirected"
    /\ \E c \in Comps : form[c] # Null /\ form[c][1].edited /\ IsTrapped(form[c][1])

\* C10: in a component that names a global submit button, the submit button
\* of every trapped form is hidden and has no local click handler.
C10_Original ==
    \A c \in Comps :
        (gsAttr[c] # "" /\ form[c] # Null /\ IsTrapped(form[c][1])) =>
            (form[c][1].bhid /\ ~form[c][1].bclick)

-----------------------------------------------------------------------------
\* Q.throttle: the claims.

\* C5: a call made while no delay window is open (the first call is one)
\* invokes the callback in that same call, with that call's arguments.
C5_ThrottleFirstCallImmediate ==
    [][(tOp' = "call" /\ ~tWindow) => tOut' = tLatest']_vars

\* C5's case: a call after an earlier window has closed went straight through.
C5_Witness ==
    /\ tOp = "call"
    /\ tOut = tLatest
    /\ Cardinality(tMade) >= 2

\* C6: when the window's timer fires after calls were made in the window, the
\* callback is invoked once, with the arguments of the latest of them and no
\* later than Delay after that call; the earlier ones are dropped; and the
\* most recent call is always handled eventually.
C6_ThrottleLatestStored ==
    /\ [][(tOp' = "timer" /\ tInWindow # << >>) =>
             /\ tOut' = Some(tInWindow[Len(tInWindow)])
             /\ tOut' = tLatest
             /\ tAge <= Delay
             /\ storedEvent' = Null]_vars
    /\ [][(tOp' = "call" /\ tWindow) => tOut' = Null]_vars
    /\ (~tLatestDone ~> tLatestDone)

\* C6's case: the timer fired after two different calls in its window and the
\* callback ran for the later one.
C6_Witness ==
    /\ tOp = "timer"
    /\ tOut # Null
    /\ tOut = tLatest
    /\ Cardinality(tMade) >= 2
    /\ tAge >= 1

\* C7: the callback runs for the first call; an invocation that follows
\* another happens only when the delay timer started by the earlier one fires,
\* Delay after it; a timer that fires after calls in its window invokes the
\* callback; every invocation's arguments are those of a call that was made.
C7_ThrottleOncePerDelay ==
    [][/\ tOut' # Null =>
             /\ tOut'[1] \in tMade'
             /\ tWindow => (tOp' = "timer" /\ tSince = Some(Delay))
       /\ (tOp' = "call" /\ tMade = {}) => tOut' # Null
       /\ (tOp' = "timer" /\ tInWindow # << >>) => tOut' # Null]_vars

\* C7's case: under calls that keep coming, the timer of an earlier invocation
\* fired, Delay after it, and invoked the callback again.
C7_Witness ==
    /\ tOp = "timer"
    /\ tOut # Null
    /\ tSince = Some(0)
    /\ tWindow
    /\ Cardinality(tMade) >= 2

-----------------------------------------------------------------------------
\* Q.debounce: the claims.

\* C8: func runs once after the last call, Wait after it, with its arguments:
\* while the last call has not been served its timer is pending and due Wait
\* after the call; func runs at most once per last call.
C8_DebounceLastCallHappens ==
    /\ dOp = "later" => (dOut = dLatest /\ dSinceLast = Wait /\ dRuns = 1)
    /\ dRuns <= 1
    /\ (dLatest # Null /\ dRuns = 0) =>
           (timeout # Null /\ timeout[1] + dSinceLast = Wait /\ laterArgs = dLatest)
    /\ (dLatest # Null /\ dRuns = 1) => timeout = Null

\* C8's case: func has just run after a burst of calls.
C8_Witness ==
    /\ dOp = "later"
    /\ dBurst = 2
    /\ dOut = dLatest

-----------------------------------------------------------------------------
\* The claims about the global submit buttons and the scripts.

\* The number of requests in flight.
InFlight(B) == BagCardinality(B)

\* Nothing on the page has changed in the step.
PageUnchanged ==
    /\ form' = form /\ sub' = sub /\ btnDisabled' = btnDisabled
    /\ inflight' = inflight /\ listeners' = listeners
    /\ globalDelegateActive' = globalDelegateActive /\ location' = location

\* C11: a click on the global submit button b submits only forms of
\* components whose global-submit is b; the forms of the components of
\* another global submit id are not submitted and keep their content and
\* their buttons' disabled state, and the other global submit buttons keep
\* theirs.
C11_ClickLeavesOtherButtonsForms ==
    [][last'.op = "gclick" =>
           /\ \A c \in last'.sent : gsAttr[c] = last'.id
           /\ \A c \in Comps :
                  gsAttr[c] # last'.id =>
                      /\ form'[c] = form[c]
                      /\ Posts(inflight', c) = Posts(inflight, c)
           /\ \A b \in Btns \ {last'.id} : btnDisabled'[b] = btnDisabled[b]]_vars

\* C11's case: a click on A has posted the form of the first component while
\* the changed form of the second one, tagged for button B, stays as it was.
C11_Witness ==
    /\ last.op = "gclick" /\ last.id = "A"
    /\ last.sent = {CompOrder[1]}
    /\ gsAttr[CompOrder[2]] = "B"
    /\ form[CompOrder[2]] # Null
    /\ form[CompOrder[2]][1].gsub = "B"
    /\ form[CompOrder[2]][1].edited /\ ~form[CompOrder[2]][1].bdis
    /\ Posts(inflight, CompOrder[2]) = 0
    /\ ~btnDisabled["B"]

ClickOutcome(b) ==
    LET posts == IF listeners > 0 /\ btnAttr[b]
                 THEN {c \in TaggedForms(b) : is_form_changed(form[c][1])}
                 ELSE {}
    IN  /\ last'.sent = posts
        /\ \A c \in Comps :
               /\ Posts(inflight', c) = Posts(inflight, c) + (IF c \in posts THEN 1 ELSE 0)
               /\ form'[c] = (IF c \in posts
                              THEN Some([form[c][1] EXCEPT !.bdis = TRUE])
                              ELSE form[c])
        /\ InFlight(inflight') = InFlight(inflight) + Cardinality(posts)
        /\ btnDisabled' = [btnDisabled EXCEPT
                               ![b] = posts # {} /\ posts = TaggedForms(b)]
        /\ sub' = sub /\ listeners' = listeners /\ location' = location
        /\ globalDelegateActive' = globalDelegateActive

\* C13: Q.triggerGlobalSubmit(id), when the button with that id exists and is
\* enabled, leaves the page and the requests as a user's click on that
\* button does; when the button is missing or disabled it submits nothing and
\* changes nothing.
C13_TriggerIsAClick ==
    [][/\ last'.op = "gclick" => ClickOutcome(last'.id)
       /\ last'.op = "trigger" =>
              IF last'.id \in Btns /\ ~btnDisabled[last'.id]
              THEN ClickOutcome(last'.id)
              ELSE last'.sent = {} /\ PageUnchanged]_vars

\* C13's case: Q.triggerGlobalSubmit has posted the changed form of its
\* button, which is disabled now.
C13_Witness ==
    /\ last.op = "trigger"
    /\ last.id \in Btns
    /\ last.sent # {}
    /\ btnDisabled[last.id]
    /\ \A c \in last.sent : Posts(inflight, c) = 1 /\ form[c][1].bdis

\* C14: every component load and every form submission is one HTTP request;
\* when a request completes, and also when it fails, no request is started in
\* its place: a failure is flashed, and nothing else happens.
C14_NoRetry ==
    /\ [](last.op = "init" =>
              /\ InFlight(inflight) = Cardinality(Comps)
              /\ \A c \in Comps : Count(inflight, Request("GET", c, "", "")) = 1)
    /\ [][/\ last'.op = "deliver" =>
                /\ InFlight(inflight') = InFlight(inflight) - 1
                /\ last'.res = "fail" =>
                       /\ last'.flash = {"Ajax component error"}
                       /\ \A c \in Comps : SameElement(form[c], form'[c])
          /\ last'.op \in {"gclick", "lclick", "trigger"} =>
                /\ InFlight(inflight') = InFlight(inflight) + Cardinality(last'.sent)
                /\ \A c \in Comps :
                       Posts(inflight', c) =
                           Posts(inflight, c) + (IF c \in last'.sent THEN 1 ELSE 0)
          /\ last'.op = "call" =>
                /\ InFlight(inflight') = InFlight(inflight) + 1
                /\ Count(inflight', Request("GET", last'.id, "", "")) =
                       Count(inflight, Request("GET", last'.id, "", "")) + 1
          /\ last'.op \in {"edit", "oclick"} => inflight' = inflight]_vars

\* C14's case: the submission of a changed form has failed; the failure was
\* flashed, the form is as the user left it and no request is in flight.
C14_Witness ==
    /\ last.op = "deliver" /\ last.method = "POST" /\ last.res = "fail"
    /\ "Ajax component error" \in last.flash
    /\ InFlight(inflight) = 0
    /\ \E c \in Comps : form[c] # Null /\ form[c][1].edited /\ ~form[c][1].bdis

\* C15: the delegated click listener is installed once: there is at most one
\* listener, there is one exactly if Q._globalDelegateActive is set, the
\* flag is never cleared, and one click starts at most one submission of a
\* form.
C15_DelegateInstalledOnce ==
    /\ [](listeners <= 1 /\ (globalDelegateActive <=> listeners = 1))
    /\ [][/\ globalDelegateActive => globalDelegateActive'
          /\ listeners' >= listeners
          /\ last'.op = "gclick" =>
                \A c \in Comps : Posts(inflight', c) <= Posts(inflight, c) + 1]_vars

\* C15's case: Q.trap_form has tagged the forms of two components for the
\* global submit button, one after the other, and one click has posted both.
C15_Witness ==
    /\ globalDelegateActive /\ listeners = 1
    /\ last.op = "gclick" /\ last.sent = Comps
    /\ \A c \in Comps : form[c][1].gsub = last.id /\ Posts(inflight, c) = 1

\* C16: with freetext: false there is no free text input, and whatever items
\* are clicked, the selected keys and the offered tags are among the
\* configured tags and the tags that the input's value held at first.
C16_TagsRestricted ==
    ~freetext =>
        /\ ~inp
        /\ Range(keys) \subseteq configured \cup initial
        /\ Range(tags) \subseteq configured \cup initial
        /\ value \in {keys} \cup {v.items : v \in TagValues}

\* C16's case: without free text, a click has selected a configured tag that
\* the value did not hold at first.
C16_Witness ==
    /\ ~freetext /\ iOp = "click"
    /\ \E x \in Range(keys) : x \in configured /\ x \notin initial
    /\ value = keys

\* C17: the promise of Q.load_and_trap is resolved, never rejected, whatever
\* the request ends with: a network failure and an error thrown while the
\* response is installed are flashed as "Ajax component error", a missing
\* target element as "Target element not found", a target that is not given
\* is flashed when Q.load_and_trap is called, and a redirect sets the location.
C17_LoadAndTrapNeverRejects ==
    /\ [](outcome # "rejected")
    /\ [][/\ last'.op = "deliver" =>
                /\ outcome' = "resolved"
                /\ last'.res = "fail" => "Ajax component error" \in last'.flash
                /\ last'.res = "redirect" => location' = "redirected"
                /\ (last'.res = "ok" /\ last'.id = "") =>
                       "Ajax component error" \in last'.flash
                /\ (last'.res = "ok" /\ last'.id # "" /\ Lookup(Dom, last'.id) = Null) =>
                       "Target element not found" \in last'.flash
                /\ "Submission error" \notin last'.flash
          /\ (last'.op = "call" /\ last'.id = "") =>
                "Target element not specified" \in last'.flash]_vars

\* C17's case: a load without target got its response; installing it threw,
\* the error was flashed and the promise is resolved.
C17_Witness ==
    /\ last.op = "deliver" /\ last.id = "" /\ last.res = "ok"
    /\ last.flash = {"Ajax component error"}
    /\ outcome = "resolved"
    /\ location = "page"

====
